---- MODULE Spec2Model ----
(***************************************************************************)
(* Model of zynq-bit2bin.c: conversion of a Xilinx .bit container read     *)
(* from stdin into the naked .bin payload written to stdout, with the      *)
(* metadata fields and the error messages printed on stderr.               *)
(*                                                                         *)
(* The program is sequential.  One action models one stretch of code       *)
(* between two positions of process_bit_file(): the container magic, the   *)
(* read of a field tag and its switch, read_meta_field(), the header part  *)
(* of process_firmware(), and one iteration of its copy loop.              *)
(***************************************************************************)
EXTENDS Integers, Sequences, FiniteSets, TLC

VARIABLES
    input,          \* stdin: the whole byte stream, fixed for a run
    out_capacity,   \* number of bytes stdout accepts (NoLimit: all of them)
    pos,            \* number of bytes of stdin consumed so far
    output,         \* stdout: the bytes written so far
    diag,           \* stderr: the lines printed so far
    pc,             \* position in process_bit_file()
    result,         \* value returned by process_bit_file(), set when pc = "exit"
    field_type,     \* process_bit_file: uint8_t field_type
    fw_length,      \* process_firmware: uint32_t fw_length
    chunk_len,      \* process_firmware: int chunk_len
    chunks_done,    \* process_firmware: int chunks_done
    invert_endian   \* process_firmware: bool invert_endian

vars == <<input, out_capacity, pos, output, diag, pc, result, field_type,
          fw_length, chunk_len, chunks_done, invert_endian>>

(***************************************************************************)
(* Bounds of the explored inputs.                                          *)
(***************************************************************************)
MaxMetaFields == 2      \* metadata fields in front of the last field
MaxFullChunks == 2      \* full 4096-byte chunks in the longest payload

(***************************************************************************)
(* Constants of the program.                                               *)
(***************************************************************************)
MAX_META_FIELD_LENGTH == 256
CHUNK_SIZE == 4096

(***************************************************************************)
(* uint32_t: the value hi * 65536 + lo, kept as two 16-bit halves.         *)
(***************************************************************************)
HALF == 65536

U32Zero == [hi |-> 0, lo |-> 0]

\* (a << 8) | b, for a byte b
U32ShiftOr(a, b) ==
    [hi |-> ((a.hi % 256) * 256) + (a.lo \div 256),
     lo |-> ((a.lo % 256) * 256) + b]

\* a < n and a > n, for 0 <= n < 65536
U32Less(a, n) == a.hi = 0 /\ a.lo < n

U32Greater(a, n) == a.hi > 0 \/ a.lo > n

\* a % 4
U32Mod4(a) == a.lo % 4

\* a - n modulo 2^32, for 0 <= n < 65536
U32Sub(a, n) ==
    IF a.lo >= n THEN [hi |-> a.hi, lo |-> a.lo - n]
    ELSE [hi |-> (a.hi + HALF - 1) % HALF, lo |-> (a.lo + HALF) - n]

BIT_MAGIC_HEADER == <<0, 9, 15, 240, 15, 240, 15, 240, 15, 240, 0, 0, 1>>

FIRMWARE_MAGIC_HEADER ==
    <<255, 255, 255, 255, 255, 255, 255, 255,
      255, 255, 255, 255, 255, 255, 255, 255,
      255, 255, 255, 255, 255, 255, 255, 255,
      255, 255, 255, 255, 255, 255, 255, 255,
      0, 0, 0, 187, 17, 34, 0, 68,
      255, 255, 255, 255, 255, 255, 255, 255>>

SYNC_INVERTED == <<170, 153, 85, 102>>
SYNC_CANONICAL == <<102, 85, 153, 170>>

NoLimit == 0 - 1

MIN(x, y) == IF x < y THEN x ELSE y

(***************************************************************************)
(* stderr lines: a metadata line "* <text>" or one of the error messages.  *)
(***************************************************************************)
MetaLine(text) == [kind |-> "meta", text |-> text]
ErrLine(msg) == [kind |-> msg, text |-> <<>>]

(***************************************************************************)
(* fread(buf, 1, n, input) at stream position p: the count returned and    *)
(* the bytes stored.  A short read consumes what is left.                  *)
(***************************************************************************)
fread(p, n) ==
    LET r == MIN(n, Len(input) - p)
    IN  [r |-> r, data |-> SubSeq(input, p + 1, p + r)]

(***************************************************************************)
(* read_uint(): big-endian decoding of `bytes` bytes into a uint32_t.      *)
(***************************************************************************)
RECURSIVE Accumulate(_, _, _)
Accumulate(buf, i, res) ==
    IF i > Len(buf) THEN res
    ELSE Accumulate(buf, i + 1, U32ShiftOr(res, buf[i]))

read_uint(p, d, bytes) ==
    LET f == fread(p, bytes)
    IN  IF f.r # bytes
        THEN [rc |-> 0 - 1, pos |-> p + f.r, res |-> U32Zero,
              diag |-> Append(d, ErrLine("Error reading a number"))]
        ELSE [rc |-> 0, pos |-> p + f.r, res |-> Accumulate(f.data, 1, U32Zero),
              diag |-> d]

(***************************************************************************)
(* read_magic_header(): read Len(expected) bytes and memcmp them.          *)
(***************************************************************************)
memcmp_differs(buf, expected) ==
    \E i \in 1..Len(expected) : buf[i] # expected[i]

read_magic_header(p, d, expected) ==
    LET bytes == Len(expected)
        f == fread(p, bytes)
    IN  IF f.r # bytes
        THEN [rc |-> 0 - 1, pos |-> p + f.r,
              diag |-> Append(d, ErrLine("Unable to read the magic header"))]
        ELSE IF memcmp_differs(f.data, expected)
        THEN [rc |-> 0 - 1, pos |-> p + f.r,
              diag |-> Append(d, ErrLine("Invalid magic header"))]
        ELSE [rc |-> 0, pos |-> p + f.r, diag |-> d]

(***************************************************************************)
(* printf("%s") of a char buffer: the bytes in front of the first NUL.     *)
(***************************************************************************)
UntilNul(mem) ==
    LET nuls == {i \in 1..Len(mem) : mem[i] = 0}
    IN  IF nuls = {} THEN mem
        ELSE SubSeq(mem, 1, (CHOOSE i \in nuls : \A j \in nuls : i <= j) - 1)

(***************************************************************************)
(* What the memory holds behind the bytes fread stored in buf[]: the rest  *)
(* of the uninitialized buffer and the stack behind it, up to the first    *)
(* NUL found there.  Indeterminate, hence a choice.                        *)
(***************************************************************************)
StaleBytes == {<<>>, <<127>>}

(***************************************************************************)
(* The conditions of the code.                                             *)
(***************************************************************************)
\* the ceiling test written with >= instead of >
MetaTooLargeInclusive(field_length) ==
    U32Greater(field_length, MAX_META_FIELD_LENGTH - 1)

MetaTooLarge(field_length) == U32Greater(field_length, MAX_META_FIELD_LENGTH)

\* a case label too many in the switch
IsMetaTagWithExtraCase(t) == t \in {97, 98, 99, 100, 102}

IsMetaTag(t) == t \in {97, 98, 99, 100}

IsFirmwareTag(t) == t = 101

\* the loop condition written with the tag of the last metadata field
LoopAgainWrongTag(t) == t # 100

LoopAgain(t) == t # 101

\* the size test without the room for the SYNC word
FwTooSmallWithoutSync(len) == U32Less(len, Len(FIRMWARE_MAGIC_HEADER))

FwTooSmall(len) == U32Less(len, 4 + Len(FIRMWARE_MAGIC_HEADER))

\* the alignment test on 2 bytes instead of 4
FwMisalignedHalfWord(len) == len.lo % 2 # 0

FwMisaligned(len) == U32Mod4(len) # 0

\* MIN(sizeof(chunk), fw_length), which fits an int
ChunkLen(len) == IF U32Greater(len, CHUNK_SIZE - 1) THEN CHUNK_SIZE ELSE len.lo

\* the SYNC detection done on every chunk
FirstChunkAlways(done) == done >= 0

FirstChunk(done) == done = 0

SyncIsInverted(chunk) == Len(chunk) >= 4 /\ SubSeq(chunk, 1, 4) = SYNC_INVERTED

\* memcmp over 3 bytes instead of 4
SyncIsCanonicalShort(chunk) ==
    Len(chunk) >= 4 /\ SubSeq(chunk, 1, 3) = SubSeq(SYNC_CANONICAL, 1, 3)

SyncIsCanonical(chunk) == Len(chunk) >= 4 /\ SubSeq(chunk, 1, 4) = SYNC_CANONICAL

(***************************************************************************)
(* invert_u32_endianness(): the loop swaps bytes i, i+3 and i+1, i+2 of    *)
(* every word; a size that is no multiple of 4 is refused with a message   *)
(* and the buffer is left alone.                                           *)
(***************************************************************************)
SwappedIndex(k) == (4 * ((k - 1) \div 4)) + (4 - ((k - 1) % 4))

\* the loop without its second swap: bytes 1 and 2 of a word stay in place
SwappedOuterIndex(k) ==
    IF (k - 1) % 4 \in {1, 2} THEN k ELSE SwappedIndex(k)

invert_outer_bytes_only(buf, n) ==
    IF n % 4 # 0
    THEN [rc |-> 0 - 1, buf |-> buf]
    ELSE [rc |-> 0, buf |-> [k \in 1..n |-> buf[SwappedOuterIndex(k)]]]

invert_u32_endianness(buf, n) ==
    IF n % 4 # 0
    THEN [rc |-> 0 - 1, buf |-> buf]
    ELSE [rc |-> 0, buf |-> [k \in 1..n |-> buf[SwappedIndex(k)]]]

(***************************************************************************)
(* fwrite(chunk, 1, n, output): the count accepted by stdout.              *)
(***************************************************************************)
fwrite(n) ==
    IF out_capacity = NoLimit THEN n
    ELSE MIN(n, out_capacity - Len(output))

(***************************************************************************)
(* The explored input streams.  A stream is the container magic (or a      *)
(* damaged one), metadata fields, and a last part: a firmware field, well  *)
(* formed or damaged, an unknown tag, or the end of the stream.            *)
(***************************************************************************)
Take(s, n) == SubSeq(s, 1, MIN(n, Len(s)))

BigEndian(v, n) == [i \in 1..n |-> (v \div (256 ^ (n - i))) % 256]

TextByte(k) == 65 + (k % 26)

FillByte(k) == ((k * 7) + 3) % 256

MetaField(tag, declared, present) ==
    <<tag>> \o BigEndian(declared, 2) \o [k \in 1..present |-> TextByte(k)]

MetaFieldChoices ==
    { <<97, 0, 5, 104, 101, 108, 108, 111>>,       \* "hello"
      <<98, 0, 3, 97, 0, 98>>,                     \* a body with a NUL inside
      MetaField(99, 0, 0),
      MetaField(100, 255, 255),
      MetaField(100, 256, 256),
      MetaField(97, 257, 257),
      MetaField(98, 300, 300),
      MetaField(99, 65535, 4),
      MetaField(99, 8, 3),
      <<98, 0>> }

RECURSIVE MetaPrefixes(_)
MetaPrefixes(n) ==
    IF n = 0 THEN {<<>>}
    ELSE LET shorter == MetaPrefixes(n - 1)
         IN  shorter \cup {a \o m : a \in shorter, m \in MetaFieldChoices}

SyncChoices ==
    {SYNC_CANONICAL, SYNC_INVERTED, <<102, 85, 153, 171>>,
     <<170, 153, 85, 103>>, <<0, 0, 0, 0>>}

HeadChoices == {SYNC_CANONICAL, SYNC_INVERTED, <<1, 2, 3, 4>>}

\* a payload of `words` words: the SYNC word first, `head` as the first
\* word of every later chunk, filler elsewhere
Payload(words, sync, head) ==
    [k \in 1..(4 * words) |->
        IF k <= 4 THEN sync[k]
        ELSE IF (k - 1) % CHUNK_SIZE < 4 THEN head[((k - 1) % 4) + 1]
        ELSE FillByte(k)]

FirmwareField(declared, magic, payload) ==
    <<101>> \o declared \o magic \o payload

SmallWords == {1, 2, 3}

LargeWords ==
    {((CHUNK_SIZE \div 4) * k) + d : k \in 1..MaxFullChunks, d \in {0, 1}}

Trailers == {<<>>, <<97, 0, 1, 66>>}

FwGood ==
    {FirmwareField(BigEndian(48 + (4 * w), 4), FIRMWARE_MAGIC_HEADER,
                   Payload(w, s, SYNC_CANONICAL)) \o t :
        w \in SmallWords, s \in SyncChoices, t \in Trailers}
    \cup
    {FirmwareField(BigEndian(48 + (4 * w), 4), FIRMWARE_MAGIC_HEADER,
                   Payload(w, s, h)) \o t :
        w \in LargeWords, s \in {SYNC_CANONICAL, SYNC_INVERTED},
        h \in HeadChoices, t \in Trailers}

FwBadLength ==
    {FirmwareField(d, FIRMWARE_MAGIC_HEADER, Payload(3, s, s)) :
        d \in {BigEndian(v, 4) : v \in {0, 4, 48, 51, 53, 54, 55, 57, 65534}}
              \cup {<<255, 255, 255, 253>>, <<255, 255, 255, 255>>,
                    <<128, 0, 0, 1>>, <<0, 0, 1, 2>>},
        s \in {SYNC_CANONICAL, SYNC_INVERTED}}

FwTruncated ==
    {FirmwareField(d, FIRMWARE_MAGIC_HEADER, Take(Payload(2, s, s), k)) :
        d \in {BigEndian(v, 4) : v \in {52, 60, 48 + CHUNK_SIZE + 4}}
              \cup {<<255, 255, 255, 252>>, <<128, 0, 0, 0>>, <<0, 1, 0, 0>>},
        s \in {SYNC_CANONICAL, SYNC_INVERTED}, k \in {0, 2, 4, 6}}

FwBadMagic ==
    {FirmwareField(BigEndian(56, 4), [FIRMWARE_MAGIC_HEADER EXCEPT ![i] = 254 - @],
                   Payload(2, SYNC_CANONICAL, SYNC_CANONICAL)) :
        i \in {1, 33, 36, 48}}
    \cup
    {<<101>> \o BigEndian(56, 4) \o Take(FIRMWARE_MAGIC_HEADER, 20)}

FwShortLength == {<<101>> \o Take(BigEndian(56, 4), k) : k \in 0..3}

SmallFirmware ==
    {FirmwareField(BigEndian(52, 4), FIRMWARE_MAGIC_HEADER, SYNC_CANONICAL),
     FirmwareField(BigEndian(60, 4), FIRMWARE_MAGIC_HEADER,
                   Payload(3, SYNC_INVERTED, SYNC_INVERTED))}

DamagedMagics ==
    {[BIT_MAGIC_HEADER EXCEPT ![i] = (@ + v) % 256] :
        i \in 1..Len(BIT_MAGIC_HEADER), v \in {1, 128, 255}}

\* streams that differ in their metadata fields and in what follows them
MetaInputs ==
    {BIT_MAGIC_HEADER \o m \o t :
        m \in MetaPrefixes(MaxMetaFields),
        t \in SmallFirmware \cup {<<>>, <<102>>, <<0, 97, 0, 1, 66>>}}

\* streams that differ in their first 13 bytes
MagicInputs ==
    {g \o <<97, 0, 5, 104, 101, 108, 108, 111>> \o f :
        g \in DamagedMagics, f \in SmallFirmware}
    \cup
    {Take(BIT_MAGIC_HEADER, k) : k \in 0..(Len(BIT_MAGIC_HEADER) - 1)}

\* streams that differ in their firmware field
FirmwareInputs ==
    {BIT_MAGIC_HEADER \o m \o f :
        m \in MetaPrefixes(1),
        f \in FwBadLength \cup FwTruncated \cup FwBadMagic \cup FwShortLength}
    \cup
    {BIT_MAGIC_HEADER \o m \o f :
        m \in {<<>>, <<97, 0, 5, 104, 101, 108, 108, 111>>}, f \in FwGood}

Inputs == MetaInputs \cup MagicInputs \cup FirmwareInputs

OutCapacities == {NoLimit, 6}

(***************************************************************************)
(* The state when process_bit_file(stdin, stdout) is entered.              *)
(***************************************************************************)
Init ==
    /\ input \in Inputs
    /\ out_capacity \in OutCapacities
    /\ pos = 0
    /\ output = <<>>
    /\ diag = <<>>
    /\ pc = "start"
    /\ result = 0
    /\ field_type = 0
    /\ fw_length = U32Zero
    /\ chunk_len = 0
    /\ chunks_done = 0
    /\ invert_endian = FALSE

\* return -1 after the message msg, at stream position p
Fail(p, msg) ==
    /\ pos' = p
    /\ diag' = Append(diag, ErrLine(msg))
    /\ pc' = "exit"
    /\ result' = 0 - 1

\* return -1 when the callee has printed its message already
FailQuietly(p, d) ==
    /\ pos' = p
    /\ diag' = d
    /\ pc' = "exit"
    /\ result' = 0 - 1

\* the end of the switch: `while (field_type != 0x65)`, then `return 0`
EndOfSwitch(t) ==
    IF LoopAgain(t)
    THEN pc' = "fields" /\ result' = result
    ELSE pc' = "exit" /\ result' = 0

(***************************************************************************)
(* process_bit_file, line 246: the container magic is read and compared,   *)
(* and the value READ_MAGIC_HEADER returns is dropped.                     *)
(***************************************************************************)
ReadBitMagic ==
    /\ pc = "start"
    /\ LET m == read_magic_header(pos, diag, BIT_MAGIC_HEADER)
       IN  /\ pos' = m.pos
           /\ diag' = m.diag
           /\ pc' = "fields"
    /\ UNCHANGED <<input, out_capacity, output, result, field_type,
                   fw_length, chunk_len, chunks_done, invert_endian>>

(***************************************************************************)
(* process_bit_file, lines 251-276: read a tag byte and switch on it.      *)
(***************************************************************************)
ReadFieldType ==
    /\ pc = "fields"
    /\ LET f == fread(pos, 1)
       IN  IF f.r # 1
           THEN /\ Fail(pos + f.r, "Cannot read field type")
                /\ field_type' = field_type
           ELSE /\ field_type' = f.data[1]
                /\ IF IsMetaTag(f.data[1])
                   THEN /\ pc' = "meta"
                        /\ pos' = pos + 1
                        /\ UNCHANGED <<diag, result>>
                   ELSE IF IsFirmwareTag(f.data[1])
                   THEN /\ pc' = "firmware"
                        /\ pos' = pos + 1
                        /\ UNCHANGED <<diag, result>>
                   ELSE Fail(pos + 1, "Unknown field type")
    /\ UNCHANGED <<input, out_capacity, output,
                   fw_length, chunk_len, chunks_done, invert_endian>>

(***************************************************************************)
(* read_meta_field, called at line 262.                                    *)
(***************************************************************************)
ReadMetaField ==
    /\ pc = "meta"
    /\ \E u \in {read_uint(pos, diag, 2)} :
           IF u.rc # 0
           THEN FailQuietly(u.pos, u.diag)
           ELSE IF MetaTooLarge(u.res)
           THEN Fail(u.pos, "Encountered a field size too large for me")
           ELSE LET f == fread(u.pos, u.res.lo)
                IN  IF f.r # u.res.lo
                    THEN Fail(u.pos + f.r, "Cannot read the whole field")
                    ELSE /\ pos' = u.pos + f.r
                         /\ \E stale \in StaleBytes :
                              diag' = Append(diag,
                                         MetaLine(UntilNul(f.data \o stale)))
                         /\ EndOfSwitch(field_type)
    /\ UNCHANGED <<input, out_capacity, output, field_type,
                   fw_length, chunk_len, chunks_done, invert_endian>>

(***************************************************************************)
(* process_firmware, lines 171-198: the length, its two checks, the        *)
(* embedded magic, and the initialisation of the locals of the loop.       *)
(***************************************************************************)
FirmwareHeader ==
    /\ pc = "firmware"
    /\ \E u \in {read_uint(pos, diag, 4)} :
           IF u.rc # 0
           THEN /\ FailQuietly(u.pos, u.diag)
                /\ fw_length' = fw_length
           ELSE IF FwTooSmall(u.res)
           THEN /\ Fail(u.pos, "The firmware blob is too small")
                /\ fw_length' = u.res
           ELSE IF FwMisaligned(u.res)
           THEN /\ Fail(u.pos, "The firmware is not 4 Bytes aligned")
                /\ fw_length' = u.res
           ELSE LET m == read_magic_header(u.pos, diag, FIRMWARE_MAGIC_HEADER)
                IN  IF m.rc # 0
                    THEN /\ FailQuietly(m.pos, m.diag)
                         /\ fw_length' = u.res
                    ELSE /\ fw_length' = U32Sub(u.res, Len(FIRMWARE_MAGIC_HEADER))
                         /\ pos' = m.pos
                         /\ diag' = diag
                         /\ IF U32Greater(U32Sub(u.res, Len(FIRMWARE_MAGIC_HEADER)), 0)
                            THEN pc' = "copy" /\ result' = result
                            ELSE EndOfSwitch(field_type)
    /\ chunks_done' = 0
    /\ invert_endian' = FALSE
    /\ UNCHANGED <<input, out_capacity, output, field_type, chunk_len>>

(***************************************************************************)
(* process_firmware, lines 199-231: one iteration of the copy loop, and    *)
(* when it was the last one the return to process_bit_file.                *)
(***************************************************************************)
CopyChunk ==
    /\ pc = "copy"
    /\ LET len == ChunkLen(fw_length)
           f == fread(pos, len)
           detect == FirstChunk(chunks_done)
           inverted == IF detect /\ SyncIsInverted(f.data)
                       THEN TRUE ELSE invert_endian
           swapped == invert_u32_endianness(f.data, len)
           chunk == IF inverted THEN swapped.buf ELSE f.data
           said == IF inverted /\ swapped.rc # 0
                   THEN Append(diag, ErrLine("Invalid buffer size"))
                   ELSE diag
           w == fwrite(len)
           left == U32Sub(fw_length, len)
       IN  /\ chunk_len' = len
           /\ IF f.r # len
              THEN /\ Fail(pos + f.r, "Cannot read first chunk of firmware")
                   /\ UNCHANGED <<output, fw_length, chunks_done, invert_endian>>
              ELSE IF detect /\ ~SyncIsInverted(f.data) /\ ~SyncIsCanonical(f.data)
              THEN /\ Fail(pos + f.r, "Invalid SYNC word")
                   /\ UNCHANGED <<output, fw_length, chunks_done, invert_endian>>
              ELSE /\ invert_endian' = inverted
                   /\ pos' = pos + f.r
                   /\ output' = output \o SubSeq(chunk, 1, w)
                   /\ IF w # len
                      THEN /\ diag' = Append(said,
                                         ErrLine("Unable to write to output"))
                           /\ pc' = "exit"
                           /\ result' = 0 - 1
                           /\ UNCHANGED <<fw_length, chunks_done>>
                      ELSE /\ diag' = said
                           /\ fw_length' = left
                           /\ chunks_done' = chunks_done + 1
                           /\ IF U32Greater(left, 0)
                              THEN pc' = "copy" /\ result' = result
                              ELSE EndOfSwitch(field_type)
    /\ UNCHANGED <<input, out_capacity, field_type>>

Next ==
    \/ ReadBitMagic
    \/ ReadFieldType
    \/ ReadMetaField
    \/ FirmwareHeader
    \/ CopyChunk

Spec == Init /\ [][Next]_vars

\* a blocking read on a finite stream returns: the program always goes on
FairSpec == Spec /\ WF_vars(Next)

(***************************************************************************)
(* Vocabulary of the properties.                                           *)
(***************************************************************************)
Succeeded == pc = "exit" /\ result = 0

Failed == pc = "exit" /\ result # 0

LastKind(d) == IF d = <<>> THEN "none" ELSE d[Len(d)].kind

MetaLineCount(d) == Cardinality({i \in 1..Len(d) : d[i].kind = "meta"})

Unread == Len(input) - pos

KnownTags == {97, 98, 99, 100, 101}

\* the bytes of a word in reverse order, word by word
WordReversed(bytes) ==
    [k \in 1..Len(bytes) |->
        bytes[(4 * ((k - 1) \div 4)) + 1 + (3 - ((k - 1) % 4))]]

(***************************************************************************)
(* C1: when the first 13 bytes of the input are not the container magic    *)
(* (or fewer than 13 bytes exist), the run aborts with a non-zero result   *)
(* right after the magic is read: no tag is read, no metadata line is      *)
(* printed, nothing is written.                                            *)
(***************************************************************************)
C1_MagicGatesRun ==
    (pc = "exit" /\ Take(input, Len(BIT_MAGIC_HEADER)) # BIT_MAGIC_HEADER)
        => /\ result # 0
           /\ pos <= Len(BIT_MAGIC_HEADER)
           /\ MetaLineCount(diag) = 0
           /\ output = <<>>

(***************************************************************************)
(* C2: on success the output is total_length - 48 bytes long; it is the    *)
(* payload unchanged when the SYNC word is canonical and the payload with  *)
(* the 4 bytes of every word reversed when the SYNC word is inverted.      *)
(***************************************************************************)
C2_OutputIsPayload ==
    Succeeded =>
        LET n == Len(output)
            start == pos - n
            payload == SubSeq(input, start + 1, pos)
        IN  /\ n >= 4
            /\ n % 4 = 0
            /\ start >= 4 + Len(FIRMWARE_MAGIC_HEADER) + 1
            /\ input[start - 52] = 101
            /\ SubSeq(input, start - 51, start - 48) = BigEndian(n + 48, 4)
            /\ SubSeq(input, start - 47, start) = FIRMWARE_MAGIC_HEADER
            /\ SubSeq(payload, 1, 4) \in {SYNC_CANONICAL, SYNC_INVERTED}
            /\ SubSeq(payload, 1, 4) = SYNC_CANONICAL => output = payload
            /\ SubSeq(payload, 1, 4) = SYNC_INVERTED =>
                  /\ SubSeq(output, 1, 4) = SYNC_CANONICAL
                  /\ \A w \in 0..((n \div 4) - 1) : \A j \in 1..4 :
                        output[(4 * w) + j] = payload[(4 * w) + (5 - j)]

C2_Witness ==
    /\ Succeeded
    /\ invert_endian
    /\ Len(output) > CHUNK_SIZE

(***************************************************************************)
(* C3: a total_length below 52 or not a multiple of 4 is rejected right    *)
(* after its 4 bytes are read, nothing more consumed and nothing written;  *)
(* every other total_length passes both checks.                            *)
(***************************************************************************)
LengthErrors ==
    {"The firmware blob is too small", "The firmware is not 4 Bytes aligned"}

C3_LengthChecks ==
    [][(pc = "firmware" /\ Unread >= 4) =>
        LET b == SubSeq(input, pos + 1, pos + 4)
            small == b[1] = 0 /\ b[2] = 0 /\ b[3] = 0 /\ b[4] < 52
            odd == b[4] % 4 # 0
        IN  IF small \/ odd
            THEN /\ pc' = "exit"
                 /\ result' # 0
                 /\ pos' = pos + 4
                 /\ output' = output
                 /\ LastKind(diag') \in LengthErrors
            ELSE /\ LastKind(diag') \notin LengthErrors
                 /\ pos' = pos + 4 + MIN(Unread - 4, Len(FIRMWARE_MAGIC_HEADER))
    ]_vars

C3_Witness ==
    /\ Failed
    /\ LastKind(diag) = "The firmware is not 4 Bytes aligned"
    /\ Unread >= Len(FIRMWARE_MAGIC_HEADER) + 4
    /\ output = <<>>

(***************************************************************************)
(* C4: a tag byte that is none of 0x61..0x65 ends the run with a non-zero  *)
(* result; after that byte nothing is read and nothing is written.         *)
(***************************************************************************)
C4_UnknownTagAborts ==
    [][/\ pc # "exit"
       /\ (pc = "fields" /\ Unread >= 1 /\ input[pos + 1] \notin KnownTags)
            => /\ pc' = "exit"
               /\ result' # 0
               /\ pos' = pos + 1
               /\ output' = output
    ]_vars

C4_Witness ==
    /\ Failed
    /\ LastKind(diag) = "Unknown field type"
    /\ field_type \notin KnownTags
    /\ Unread > 0

(***************************************************************************)
(* C5: a metadata length above 256 fails after the 2 length bytes, with no *)
(* body byte read and no metadata line printed; a length of 0..256 is      *)
(* accepted and exactly that many body bytes are consumed.                 *)
(***************************************************************************)
C5_MetaCeiling ==
    [][(pc = "meta" /\ Unread >= 2) =>
        LET declared == (256 * input[pos + 1]) + input[pos + 2]
        IN  IF declared > 256
            THEN /\ pc' = "exit"
                 /\ result' # 0
                 /\ pos' = pos + 2
                 /\ MetaLineCount(diag') = MetaLineCount(diag)
            ELSE /\ LastKind(diag') # "Encountered a field size too large for me"
                 /\ Unread - 2 >= declared =>
                        /\ pos' = pos + 2 + declared
                        /\ pc' = "fields"
                        /\ MetaLineCount(diag') = MetaLineCount(diag) + 1
    ]_vars

C5_Witness ==
    /\ Failed
    /\ LastKind(diag) = "Encountered a field size too large for me"
    /\ pos >= 2
    /\ input[pos - 1] = 1
    /\ input[pos] = 1
    /\ Unread >= 257

(***************************************************************************)
(* C6: for a metadata field whose body is fully available, the line        *)
(* printed is exactly the L body bytes, whatever their values.             *)
(***************************************************************************)
C6_MetaLineIsBody ==
    [][(pc = "meta" /\ Unread >= 2) =>
        LET declared == (256 * input[pos + 1]) + input[pos + 2]
        IN  (declared <= 256 /\ Unread - 2 >= declared) =>
                diag' = Append(diag,
                           MetaLine(SubSeq(input, pos + 3, pos + 2 + declared)))
    ]_vars

(***************************************************************************)
(* C7: nothing is written before the SYNC word is recognized: a first      *)
(* payload word that is neither SYNC pattern fails the run with the output *)
(* empty, and every run that fails at or before the SYNC detection leaves  *)
(* the output empty.                                                       *)
(***************************************************************************)
BeforeSyncErrors ==
    {"Unable to read the magic header", "Invalid magic header",
     "Error reading a number", "Encountered a field size too large for me",
     "Cannot read the whole field", "Cannot read field type",
     "Unknown field type", "The firmware blob is too small",
     "The firmware is not 4 Bytes aligned", "Invalid SYNC word"}

C7_NoOutputBeforeSync ==
    /\ [](output # <<>> =>
            Take(output, 4) = Take(SYNC_CANONICAL, MIN(4, Len(output))))
    /\ []((Failed /\ LastKind(diag) \in BeforeSyncErrors) => output = <<>>)
    /\ []((Failed /\ chunks_done = 0
             /\ LastKind(diag) = "Cannot read first chunk of firmware")
            => output = <<>>)
    /\ [][(/\ pc = "copy"
           /\ chunks_done = 0
           /\ Unread >= 4
           /\ SubSeq(input, pos + 1, pos + 4) \notin {SYNC_CANONICAL, SYNC_INVERTED})
            => /\ pc' = "exit"
               /\ result' # 0
               /\ output' = <<>>
      ]_vars

C7_Witness ==
    /\ Failed
    /\ LastKind(diag) = "Invalid SYNC word"
    /\ output = <<>>
    /\ pos >= 4
    /\ SubSeq(input, pos - 3, pos - 1) = SubSeq(SYNC_CANONICAL, 1, 3)

(***************************************************************************)
(* C8: every run stops; it stops with result 0 only when a firmware field  *)
(* has been extracted completely; a metadata field leads back to the read  *)
(* of a tag; the end of the input where a tag is expected is fatal; after  *)
(* the firmware field nothing more is read.                                *)
(***************************************************************************)
C8_RunStops ==
    /\ <>(pc = "exit")
    /\ [](Succeeded =>
            /\ field_type = 101
            /\ chunks_done >= 1
            /\ fw_length = U32Zero
            /\ Len(output) >= 4
            /\ pos >= Len(output) + 52
            /\ SubSeq(input, pos - Len(output) - 51, pos - Len(output) - 48)
                   = BigEndian(Len(output) + 48, 4))
    /\ [][/\ pc # "exit"
          /\ (pc = "meta" /\ pc' # "exit") => pc' = "fields"
          /\ (pc = "fields" /\ Unread = 0) => (pc' = "exit" /\ result' # 0)
          /\ (pc = "fields" /\ Unread > 0 /\ pc' # "exit")
                => (pos' = pos + 1 /\ pc' \in {"meta", "firmware"})
          /\ (pc = "copy" /\ pc' # "copy") => pc' = "exit"
      ]_vars

C8_Witness ==
    /\ Succeeded
    /\ MetaLineCount(diag) >= 1
    /\ Unread > 0

(***************************************************************************)
(* C9: invert_endian is decided on the first chunk and never changes; the  *)
(* first 4 bytes of a later chunk are not inspected, whatever they are,    *)
(* and the mode of the first chunk is applied to every chunk.              *)
(***************************************************************************)
C9_ModeDecidedOnce ==
    [][(pc = "copy" /\ chunks_done >= 1) =>
        /\ invert_endian' = invert_endian
        /\ LastKind(diag') # "Invalid SYNC word"
        /\ Unread >= chunk_len' =>
              LET chunk == SubSeq(input, pos + 1, pos + chunk_len')
                  written == SubSeq(output', Len(output) + 1, Len(output'))
                  expected == IF invert_endian THEN WordReversed(chunk) ELSE chunk
              IN  /\ pos' = pos + chunk_len'
                  /\ written = Take(expected, Len(written))
                  /\ diag' = diag => Len(written) = chunk_len'
    ]_vars

C9_Witness ==
    /\ chunks_done >= 2
    /\ ~invert_endian
    /\ chunk_len >= 4
    /\ SubSeq(input, pos - chunk_len + 1, pos - chunk_len + 4) = SYNC_INVERTED
    /\ Len(output) > CHUNK_SIZE

(***************************************************************************)
(* C10: in the copy loop every chunk length is a multiple of 4 between 4   *)
(* and 4096, every chunk but the last is 4096 bytes, the remaining length  *)
(* stays a multiple of 4 and decreases by the chunk length down to 0       *)
(* without wrapping; invert_u32_endianness never refuses a chunk.          *)
(***************************************************************************)
C10_ChunkDiscipline ==
    /\ [](/\ (pc = "copy" \/ chunks_done >= 1) => U32Mod4(fw_length) = 0
          /\ chunk_len % 4 = 0
          /\ chunk_len <= CHUNK_SIZE
          /\ \A i \in 1..Len(diag) : diag[i].kind # "Invalid buffer size"
          /\ Succeeded => fw_length = U32Zero)
    /\ [][pc = "copy" =>
            /\ chunk_len' >= 4
            /\ chunk_len' % 4 = 0
            /\ chunk_len' <= CHUNK_SIZE
            /\ chunk_len' # CHUNK_SIZE => fw_length = [hi |-> 0, lo |-> chunk_len']
            /\ chunks_done' = chunks_done + 1 =>
                  /\ fw_length'.hi <= fw_length.hi
                  /\ ((fw_length.hi - fw_length'.hi) * HALF)
                        + (fw_length.lo - fw_length'.lo) = chunk_len'
                  /\ (pc' = "copy") = U32Greater(fw_length', 0)
      ]_vars

C10_Witness ==
    /\ Succeeded
    /\ chunks_done >= 3
    /\ chunk_len = 4
    /\ invert_endian

====
